---- MODULE Spec2Model ----
(***************************************************************************)
(* Model of the milestone maintainer munger                                *)
(* (mungegithub/mungers/milestone-maintainer.go).                          *)
(*                                                                         *)
(* One tracked GitHub object is modelled together with the munger's        *)
(* configuration.  A Munge cycle is one atomic action; the collaborator    *)
(* call that fails in a cycle (if any) is an input of the action.  Between *)
(* cycles the clock advances.                                              *)
(*                                                                         *)
(* Time is counted in abstract units; Day units make up 24 hours.          *)
(* Optional values (Go nil pointers) are sequences: <<>> is nil, <<v>> is  *)
(* a pointer to v.                                                         *)
(***************************************************************************)
EXTENDS Integers, Sequences, FiniteSets, TLC

\* ------------------------------------------------------------------ bounds

\* The clock runs from 0 to MaxTime.
MaxTime == 2

\* ------------------------------------------------------- optional values

None == <<>>
Some(v) == <<v>>

\* --------------------------------------------------------------- constants

milestoneNotifierName == "MilestoneNotifier"

milestoneModeDev == "dev"
milestoneModeSlush == "slush"
milestoneModeFreeze == "freeze"

milestoneCurrent == "Current"
milestoneNeedsLabeling == "NeedsLabeling"
milestoneNeedsApproval == "NeedsApproval"
milestoneNeedsAttention == "NeedsAttention"
milestoneNeedsRemoval == "NeedsRemoval"

milestoneLabelsIncompleteLabel == "milestone/incomplete-labels"
milestoneNeedsApprovalLabel == "milestone/needs-approval"
milestoneNeedsAttentionLabel == "milestone/needs-attention"
milestoneRemovedLabel == "milestone/removed"

statusApprovedLabel == "status/approved-for-milestone"
statusInProgressLabel == "status/in-progress"

blockerLabel == "priority/critical-urgent"

sigLabelPrefix == "sig/"

milestoneModes == {milestoneModeDev, milestoneModeSlush, milestoneModeFreeze}

\* Mutant of milestoneStateConfigs: every state repeats its notification on
\* the warning interval.
milestoneStateConfigsAllRepeat ==
    [s \in {milestoneCurrent, milestoneNeedsLabeling, milestoneNeedsApproval,
            milestoneNeedsAttention, milestoneNeedsRemoval} |->
        CASE s = milestoneCurrent ->
                [title |-> "Milestone Issue **Current**", label |-> "",
                 warnOnInterval |-> TRUE, notifySIGs |-> FALSE]
          [] s = milestoneNeedsLabeling ->
                [title |-> "Milestone Labels **Incomplete**",
                 label |-> milestoneLabelsIncompleteLabel,
                 warnOnInterval |-> TRUE, notifySIGs |-> FALSE]
          [] s = milestoneNeedsApproval ->
                [title |-> "Milestone Issue **Needs Approval**",
                 label |-> milestoneNeedsApprovalLabel,
                 warnOnInterval |-> TRUE, notifySIGs |-> TRUE]
          [] s = milestoneNeedsAttention ->
                [title |-> "Milestone Issue **Needs Attention**",
                 label |-> milestoneNeedsAttentionLabel,
                 warnOnInterval |-> TRUE, notifySIGs |-> TRUE]
          [] s = milestoneNeedsRemoval ->
                [title |-> "Milestone **Removed**",
                 label |-> milestoneRemovedLabel,
                 warnOnInterval |-> TRUE, notifySIGs |-> TRUE]]

\* milestoneStateConfigs: the label, the title and the notification
\* configuration of each milestone state.
milestoneStateConfigs ==
    [s \in {milestoneCurrent, milestoneNeedsLabeling, milestoneNeedsApproval,
            milestoneNeedsAttention, milestoneNeedsRemoval} |->
        CASE s = milestoneCurrent ->
                [title |-> "Milestone Issue **Current**", label |-> "",
                 warnOnInterval |-> FALSE, notifySIGs |-> FALSE]
          [] s = milestoneNeedsLabeling ->
                [title |-> "Milestone Labels **Incomplete**",
                 label |-> milestoneLabelsIncompleteLabel,
                 warnOnInterval |-> TRUE, notifySIGs |-> FALSE]
          [] s = milestoneNeedsApproval ->
                [title |-> "Milestone Issue **Needs Approval**",
                 label |-> milestoneNeedsApprovalLabel,
                 warnOnInterval |-> TRUE, notifySIGs |-> TRUE]
          [] s = milestoneNeedsAttention ->
                [title |-> "Milestone Issue **Needs Attention**",
                 label |-> milestoneNeedsAttentionLabel,
                 warnOnInterval |-> TRUE, notifySIGs |-> TRUE]
          [] s = milestoneNeedsRemoval ->
                [title |-> "Milestone **Removed**",
                 label |-> milestoneRemovedLabel,
                 warnOnInterval |-> FALSE, notifySIGs |-> TRUE]]

\* Mutant of milestoneStateLabels: milestone/needs-attention is left out.
milestoneStateLabelsShort ==
    << milestoneLabelsIncompleteLabel,
       milestoneNeedsApprovalLabel,
       milestoneRemovedLabel >>

\* milestoneStateLabels, in the order the munger walks them.
milestoneStateLabels ==
    << milestoneLabelsIncompleteLabel,
       milestoneNeedsApprovalLabel,
       milestoneNeedsAttentionLabel,
       milestoneRemovedLabel >>

\* The keys of kindMap and of priorityMap.
kindMap == {"kind/bug", "kind/feature", "kind/cleanup"}
priorityMap == {blockerLabel, "priority/important-soon", "priority/important-longterm"}

\* The sig/ prefixed labels of the model (strings.HasPrefix(name, "sig/")).
SigLabels == {"sig/api", "sig/node"}
HasSigPrefix(name) == name \in SigLabels

\* The names of the message sections, in the order of milestoneMessageTemplate.
TemplateSections ==
    << "warnUnapproved", "removeUnapproved", "warnMissingInProgress",
       "warnUpdateRequired", "warnUpdateInterval", "warnNonBlockerRemoval",
       "removeNonBlocker", "warnIncompleteLabels", "removeIncompleteLabels",
       "summarizeLabels" >>

\* Mutant of HasRemovePrefix: the empty prefix, which every section has.
HasAnyPrefix(sectionName) ==
    sectionName \in { TemplateSections[i] : i \in 1..Len(TemplateSections) }

\* strings.HasPrefix(sectionName, "remove")
HasRemovePrefix(sectionName) ==
    sectionName \in {"removeUnapproved", "removeNonBlocker", "removeIncompleteLabels"}

\* ------------------------------------------------------------ the universe

\* The labels an object of the model can carry.
StateLabels ==
    { milestoneLabelsIncompleteLabel, milestoneNeedsApprovalLabel,
      milestoneNeedsAttentionLabel, milestoneRemovedLabel }
FactLabels ==
    {"kind/bug", blockerLabel, "priority/important-soon", "sig/api",
     statusApprovedLabel, statusInProgressLabel}

\* The state labels whose label events the munger reads (gracePeriodStart).
GraceLabels == {milestoneLabelsIncompleteLabel, milestoneNeedsApprovalLabel}

BotName == "k8s-merge-robot"
ActiveMilestone == "v1.9"
OtherMilestone == "v1.8"

\* The option values the munger is started with: every one is accepted by the
\* validators.  Durations are in time units.
Options ==
    { [ activeMilestone |-> ActiveMilestone,
        mode |-> md,
        warningInterval |-> 2,
        labelGracePeriod |-> 1,
        approvalGracePeriod |-> 2,
        slushUpdateInterval |-> 2,
        freezeUpdateInterval |-> 1,
        freezeDate |-> "Nov 22",
        botName |-> BotName ] : md \in milestoneModes }

\* The collaborator calls of one cycle; FailAt names the one that fails.
FailPoints ==
    { "none", "GetEvents", "LastModification", "AddLabel", "RemoveLabel",
      "ListComments", "DeleteComment", "Post" }

VARIABLES
    m,              \* the MilestoneMaintainer: its option fields and botName
    labels,         \* obj.Issue.Labels: the set of label names on the object
    milestone,      \* the object's milestone title, "" when it has none
    isPR,           \* obj.IsPR()
    closed,         \* obj.Issue.State = "closed"
    comments,       \* the object's comments, oldest first
    botLabelEvents, \* per grace label: the time of the bot's last add-label event
    lastModified,   \* the time of the object's last modification
    now,            \* the clock
    last,           \* what the most recent Munge cycle did
    labelList,      \* the slice of labels checkLabels is called with
    labelCheck      \* what checkLabels returned for labelList, if called

vars ==
    << m, labels, milestone, isPR, closed, comments, botLabelEvents,
       lastModified, now, last, labelList, labelCheck >>

\* --------------------------------------------------------- pure functions

\* The number of time units in 24 hours.
Day == 2

\* durationToMaxDays: a duration of a day or more is rendered as a count of
\* whole days, a shorter one as the duration itself.
durationToMaxDays(duration) ==
    IF duration >= Day THEN << duration \div Day, "days" >>
    ELSE << duration, "units" >>

\* time.Time.Format("Jan 2"): the calendar day of a time.
FormatDate(t) == t \div Day

\* strings.ToUpper, on the names the model uses.
ToUpper(s) ==
    CASE s = "MilestoneNotifier" -> "MILESTONENOTIFIER"
      [] OTHER -> s

\* quoteLabel: a label name as inline code.
quoteLabel(label) == IF label # "" THEN << "code", label >> ELSE << >>

\* The loop of uniqueLabelName over a slice of labels, from index i, with
\* the label found so far.
RECURSIVE uniqueLabelNameLoop(_, _, _, _)
uniqueLabelNameLoop(labelSlice, labelMap, i, labelName) ==
    IF i > Len(labelSlice) THEN [name |-> labelName, err |-> FALSE]
    ELSE IF labelSlice[i] \in labelMap
    THEN IF labelName = ""
         THEN uniqueLabelNameLoop(labelSlice, labelMap, i + 1, labelSlice[i])
         ELSE [name |-> "", err |-> TRUE]
    ELSE uniqueLabelNameLoop(labelSlice, labelMap, i + 1, labelName)

\* Mutant of uniqueLabelNameInSlice: the first label of the map wins and a
\* second one is no error.
uniqueLabelNameFirstWins(labelSlice, labelMap) ==
    LET found == SelectSeq(labelSlice, LAMBDA l : l \in labelMap)
    IN  [name |-> IF found = << >> THEN "" ELSE found[1], err |-> FALSE]

\* uniqueLabelName on a slice of labels, in the order of the slice.
uniqueLabelNameInSlice(labelSlice, labelMap) ==
    uniqueLabelNameLoop(labelSlice, labelMap, 1, "")

\* sigLabelNames on a slice of labels, in the order of the slice.
sigLabelNamesInSlice(labelSlice) == SelectSeq(labelSlice, HasSigPrefix)

\* checkLabels on a slice of labels, in the order of the slice.
checkLabelsInSlice(labelSlice) ==
    LET kind == uniqueLabelNameInSlice(labelSlice, kindMap)
        priority == uniqueLabelNameInSlice(labelSlice, priorityMap)
        sigs == sigLabelNamesInSlice(labelSlice)
        kindErrors == IF kind.err \/ kind.name = "" THEN << "kind" >> ELSE << >>
        priorityErrors ==
            IF priority.err \/ priority.name = "" THEN << "priority" >> ELSE << >>
        sigErrors == IF Len(sigs) = 0 THEN << "sig owner" >> ELSE << >>
    IN  [ kindLabel |-> kind.name,
          priorityLabel |-> priority.name,
          sigLabels |-> sigs,
          labelErrors |-> kindErrors \o priorityErrors \o sigErrors ]

\* uniqueLabelName: the label of labelMap among labelSet, if any; an error
\* when labelSet holds more than one.
uniqueLabelName(labelSet, labelMap) ==
    LET found == labelSet \cap labelMap
    IN  IF Cardinality(found) > 1 THEN [name |-> "", err |-> TRUE]
        ELSE IF found = {} THEN [name |-> "", err |-> FALSE]
        ELSE [name |-> CHOOSE l \in found : TRUE, err |-> FALSE]

\* sigLabelNames: the sig/ prefixed labels.
sigLabelNames(labelSet) == {l \in labelSet : HasSigPrefix(l)}

\* Mutant of checkLabels: a missing sig label is not reported.
checkLabelsNoSigError(labelSet) ==
    LET kind == uniqueLabelName(labelSet, kindMap)
        priority == uniqueLabelName(labelSet, priorityMap)
        kindErrors == IF kind.err \/ kind.name = "" THEN << "kind" >> ELSE << >>
        priorityErrors ==
            IF priority.err \/ priority.name = "" THEN << "priority" >> ELSE << >>
    IN  [ kindLabel |-> kind.name,
          priorityLabel |-> priority.name,
          sigLabels |-> sigLabelNames(labelSet),
          labelErrors |-> kindErrors \o priorityErrors ]

\* checkLabels: the required labels and the errors, one per deficient
\* category, in the order kind, priority, sig owner.
checkLabels(labelSet) ==
    LET kind == uniqueLabelName(labelSet, kindMap)
        priority == uniqueLabelName(labelSet, priorityMap)
        sigs == sigLabelNames(labelSet)
        kindErrors == IF kind.err \/ kind.name = "" THEN << "kind" >> ELSE << >>
        priorityErrors ==
            IF priority.err \/ priority.name = "" THEN << "priority" >> ELSE << >>
        sigErrors == IF sigs = {} THEN << "sig owner" >> ELSE << >>
    IN  [ kindLabel |-> kind.name,
          priorityLabel |-> priority.name,
          sigLabels |-> sigs,
          labelErrors |-> kindErrors \o priorityErrors \o sigErrors ]

\* obj.HasLabel
HasLabel(name) == name \in labels

\* Mutant of updateInterval: the intervals of slush and freeze are swapped.
updateIntervalSwapped ==
    IF m.mode = milestoneModeSlush THEN m.freezeUpdateInterval
    ELSE IF m.mode = milestoneModeFreeze THEN m.slushUpdateInterval
    ELSE 0

\* updateInterval: the update interval of the mode.
updateInterval ==
    IF m.mode = milestoneModeSlush THEN m.slushUpdateInterval
    ELSE IF m.mode = milestoneModeFreeze THEN m.freezeUpdateInterval
    ELSE 0

\* obj.GetEvents followed by the filter on add-label events of labelName by
\* the bot and GetLast: the time of the last such event, nil when the fetch
\* fails or no such event exists.
labelLastCreatedAt(labelName, failAt) ==
    IF failAt = "GetEvents" THEN [time |-> None, failed |-> "GetEvents"]
    ELSE [time |-> botLabelEvents[labelName], failed |-> "none"]

\* Mutant of gracePeriodStart: the default takes the place of a start that
\* cannot be determined.
gracePeriodStartOrDefault(labelName, defaultStart, failAt) ==
    LET lastAdded == labelLastCreatedAt(labelName, failAt)
    IN  IF ~HasLabel(labelName) \/ lastAdded.time = None
        THEN [time |-> Some(defaultStart), failed |-> "none"]
        ELSE lastAdded

\* gracePeriodStart: the default when the label is not set, else the time
\* the bot last applied it.
gracePeriodStart(labelName, defaultStart, failAt) ==
    IF ~HasLabel(labelName) THEN [time |-> Some(defaultStart), failed |-> "none"]
    ELSE labelLastCreatedAt(labelName, failAt)

\* Mutant of gracePeriodRemaining: a blocker gets no exemption.
gracePeriodRemainingNoExemption(labelName, gracePeriod, defaultStart, isBlocker, failAt) ==
    LET tempStart == gracePeriodStart(labelName, defaultStart, failAt)
    IN  IF tempStart.time = None
        THEN [remaining |-> None, ok |-> FALSE, failed |-> tempStart.failed]
        ELSE [ remaining |-> Some((tempStart.time[1] + gracePeriod) - now),
               ok |-> TRUE, failed |-> "none" ]

\* Mutant of gracePeriodRemaining: the grace period is not added to the
\* start.
gracePeriodRemainingFromStart(labelName, gracePeriod, defaultStart, isBlocker, failAt) ==
    IF isBlocker THEN [remaining |-> None, ok |-> TRUE, failed |-> "none"]
    ELSE LET tempStart == gracePeriodStart(labelName, defaultStart, failAt)
         IN  IF tempStart.time = None
             THEN [remaining |-> None, ok |-> FALSE, failed |-> tempStart.failed]
             ELSE [ remaining |-> Some(tempStart.time[1] - now),
                    ok |-> TRUE, failed |-> "none" ]

\* gracePeriodRemaining: -time.Since(start.Add(gracePeriod)); nil for a
\* blocker; not ok when the start cannot be determined.
gracePeriodRemaining(labelName, gracePeriod, defaultStart, isBlocker, failAt) ==
    IF isBlocker THEN [remaining |-> None, ok |-> TRUE, failed |-> "none"]
    ELSE LET tempStart == gracePeriodStart(labelName, defaultStart, failAt)
         IN  IF tempStart.time = None
             THEN [remaining |-> None, ok |-> FALSE, failed |-> tempStart.failed]
             ELSE [ remaining |-> Some((tempStart.time[1] + gracePeriod) - now),
                    ok |-> TRUE, failed |-> "none" ]

\* Mutant of withinGrace: a remaining of zero already counts as expired.
withinGraceStrict(removeAfter) == removeAfter = None \/ removeAfter[1] > 0

\* The test of issueChangeConfig on the grace remaining: nil, or not negative.
withinGrace(removeAfter) == removeAfter = None \/ removeAfter[1] >= 0

\* findLastModificationTime
findLastModificationTime(failAt) ==
    IF failAt = "LastModification" THEN [time |-> None, ok |-> FALSE]
    ELSE [time |-> Some(lastModified), ok |-> TRUE]

\* ------------------------------------------------------ issueChangeConfig

\* The issueChangeConfig that issueChangeConfig() starts from.
newIssueChangeConfig ==
    [ state |-> "",
      enabledSections |-> {},
      sigLabels |-> {},
      templateArguments |->
        [ approvalGracePeriod |-> durationToMaxDays(m.approvalGracePeriod),
          approvedLabel |-> quoteLabel(statusApprovedLabel),
          blockerLabel |-> quoteLabel(blockerLabel),
          freezeDate |-> m.freezeDate,
          inProgressLabel |-> quoteLabel(statusInProgressLabel),
          labelGracePeriod |-> durationToMaxDays(m.labelGracePeriod),
          milestone |-> << m.activeMilestone, "milestone" >>,
          mode |-> m.mode,
          updateInterval |-> durationToMaxDays(updateInterval),
          unapprovedRemovalWarning |-> << >>,
          incompleteLabelsRemovalWarning |-> << >>,
          labelErrors |-> << >>,
          lastUpdated |-> << >>,
          kindLabel |-> << >>,
          priorityLabel |-> << >>,
          sigLabels |-> {} ] ]

enableSection(icc, sectionName) ==
    [icc EXCEPT !.enabledSections = @ \cup {sectionName}]

summarizeLabels(icc, kindLabel, priorityLabel, sigLabels) ==
    [enableSection(icc, "summarizeLabels") EXCEPT
        !.state = milestoneCurrent,
        !.sigLabels = sigLabels,
        !.templateArguments.kindLabel = quoteLabel(kindLabel),
        !.templateArguments.priorityLabel = quoteLabel(priorityLabel),
        !.templateArguments.sigLabels = {quoteLabel(l) : l \in sigLabels}]

warnUnapproved(icc, removeAfter, milestoneName) ==
    [enableSection(icc, "warnUnapproved") EXCEPT
        !.state = milestoneNeedsApproval,
        !.templateArguments.unapprovedRemovalWarning =
            IF removeAfter # None
            THEN << durationToMaxDays(removeAfter[1]), milestoneName >>
            ELSE << >>]

\* Mutant of removeUnapproved: the section is enabled but the state is kept.
removeUnapprovedKeepingState(icc) == enableSection(icc, "removeUnapproved")

removeUnapproved(icc) ==
    [enableSection(icc, "removeUnapproved") EXCEPT !.state = milestoneNeedsRemoval]

\* Mutant of removeNonBlocker: the section is enabled but the state is kept.
removeNonBlockerKeepingState(icc) == enableSection(icc, "removeNonBlocker")

removeNonBlocker(icc) ==
    [enableSection(icc, "removeNonBlocker") EXCEPT !.state = milestoneNeedsRemoval]

warnMissingInProgress(icc) ==
    [enableSection(icc, "warnMissingInProgress") EXCEPT
        !.state = milestoneNeedsAttention]

warnUpdateRequired(icc, lastUpdated) ==
    [enableSection(icc, "warnUpdateRequired") EXCEPT
        !.state = milestoneNeedsAttention,
        !.templateArguments.lastUpdated = << FormatDate(lastUpdated) >>]

warnIncompleteLabels(icc, removeAfter, labelErrors, milestoneName) ==
    [enableSection(icc, "warnIncompleteLabels") EXCEPT
        !.state = milestoneNeedsLabeling,
        !.templateArguments.incompleteLabelsRemovalWarning =
            IF removeAfter # None
            THEN << durationToMaxDays(removeAfter[1]), milestoneName >>
            ELSE << >>,
        !.templateArguments.labelErrors = labelErrors]

removeIncompleteLabels(icc, labelErrors) ==
    [enableSection(icc, "removeIncompleteLabels") EXCEPT
        !.state = milestoneNeedsRemoval,
        !.templateArguments.labelErrors = labelErrors]

\* Mutant of statusNotRequired: dev mode is treated like the other modes.
statusAlwaysRequired == FALSE

\* Status and updates are not required for dev mode (issueChangeConfig).
statusNotRequired == m.mode = milestoneModeDev

\* The result of issueChangeConfig when no action should be taken (nil);
\* failed names the collaborator call that failed, if one did.
NoChangeConfig(failed) == [ok |-> FALSE, failed |-> failed, icc |-> newIssueChangeConfig]
ChangeConfig(icc) == [ok |-> TRUE, failed |-> "none", icc |-> icc]

\* issueChangeConfig: the state of the object and the message sections.
issueChangeConfig(failAt) ==
    LET isBlocker == HasLabel(blockerLabel)
        checked == checkLabels(labels)
    IN  IF Len(checked.labelErrors) = 0
        THEN
          LET icc1 == summarizeLabels(newIssueChangeConfig, checked.kindLabel,
                                      checked.priorityLabel, checked.sigLabels)
          IN  IF ~HasLabel(statusApprovedLabel)
              THEN
                IF isBlocker
                THEN ChangeConfig(warnUnapproved(icc1, None, m.activeMilestone))
                ELSE
                  LET grace == gracePeriodRemaining(milestoneNeedsApprovalLabel,
                                    m.approvalGracePeriod, now, FALSE, failAt)
                  IN  IF ~grace.ok THEN NoChangeConfig(grace.failed)
                      ELSE IF withinGrace(grace.remaining)
                      THEN ChangeConfig(warnUnapproved(icc1, grace.remaining,
                                                       m.activeMilestone))
                      ELSE ChangeConfig(removeUnapproved(icc1))
              ELSE IF statusNotRequired
              THEN ChangeConfig(icc1)
              ELSE IF m.mode = milestoneModeFreeze /\ ~isBlocker
              THEN ChangeConfig(removeNonBlocker(icc1))
              ELSE
                LET icc2 == IF ~HasLabel(statusInProgressLabel)
                            THEN warnMissingInProgress(icc1)
                            ELSE icc1
                IN  IF ~isBlocker
                    THEN ChangeConfig(enableSection(icc2, "warnNonBlockerRemoval"))
                    ELSE IF updateInterval > 0
                    THEN
                      LET lastUpdate == findLastModificationTime(failAt)
                      IN  IF ~lastUpdate.ok THEN NoChangeConfig("LastModification")
                          ELSE
                            LET durationSinceUpdate == now - lastUpdate.time[1]
                                icc3 == IF durationSinceUpdate > updateInterval
                                        THEN warnUpdateRequired(icc2, lastUpdate.time[1])
                                        ELSE icc2
                            IN  ChangeConfig(enableSection(icc3, "warnUpdateInterval"))
                    ELSE ChangeConfig(icc2)
        ELSE
          LET grace == gracePeriodRemaining(milestoneLabelsIncompleteLabel,
                            m.labelGracePeriod, now, isBlocker, failAt)
          IN  IF ~grace.ok THEN NoChangeConfig(grace.failed)
              ELSE IF withinGrace(grace.remaining)
              THEN ChangeConfig(warnIncompleteLabels(newIssueChangeConfig,
                        grace.remaining, checked.labelErrors, m.activeMilestone))
              ELSE ChangeConfig(removeIncompleteLabels(newIssueChangeConfig,
                                                       checked.labelErrors))

\* The sections messageBody activates: every enabled section, but only the
\* remove* sections when the object will be removed from the milestone.
activeSections(icc) ==
    { sectionName \in icc.enabledSections :
        icc.state # milestoneNeedsRemoval \/ HasRemovePrefix(sectionName) }

\* The text milestoneMessageTemplate renders for one active section.
RenderSection(sectionName, args, onlySummary) ==
    CASE sectionName = "warnUnapproved" ->
            << sectionName, args.approvedLabel, args.unapprovedRemovalWarning >>
      [] sectionName = "removeUnapproved" ->
            << sectionName, args.approvedLabel, args.approvalGracePeriod >>
      [] sectionName = "warnMissingInProgress" ->
            << sectionName, args.mode, args.inProgressLabel >>
      [] sectionName = "warnUpdateRequired" ->
            << sectionName, args.lastUpdated >>
      [] sectionName = "warnUpdateInterval" ->
            << sectionName, args.blockerLabel, args.updateInterval, args.mode >>
      [] sectionName = "warnNonBlockerRemoval" ->
            << sectionName, args.blockerLabel, args.freezeDate, args.milestone >>
      [] sectionName = "removeNonBlocker" ->
            << sectionName, args.blockerLabel, args.milestone >>
      [] sectionName = "warnIncompleteLabels" ->
            << sectionName, args.incompleteLabelsRemovalWarning, args.labelErrors >>
      [] sectionName = "removeIncompleteLabels" ->
            << sectionName, args.milestone, args.labelGracePeriod, args.labelErrors >>
      [] sectionName = "summarizeLabels" ->
            << sectionName, onlySummary, args.sigLabels, args.priorityLabel,
               args.kindLabel >>

\* Mutant of summaryIsOpen: the summary is open in every state that shows it.
summaryIsOpenUnlessRemoval(icc) == icc.state # milestoneNeedsRemoval

\* The template argument onlySummary messageBody sets: the label summary is
\* open.
summaryIsOpen(icc) == icc.state = milestoneCurrent

\* messageBody: the template rendered with the active sections, in the
\* order of the template.
messageBody(icc) ==
    LET active == activeSections(icc)
        rendered == [i \in 1..Len(TemplateSections) |->
                        RenderSection(TemplateSections[i], icc.templateArguments,
                                      summaryIsOpen(icc))]
        chosen == SelectSeq([i \in 1..Len(TemplateSections) |-> i],
                            LAMBDA i : TemplateSections[i] \in active)
    IN  [i \in 1..Len(chosen) |-> rendered[chosen[i]]]

\* sigMentions: the mention of each sig label.
sigMentions(icc) == {<< "@kubernetes/sig-", label, "-bugs" >> : label \in icc.sigLabels}

\* Mutant of removeFromMilestone: every state but Current removes the object.
removeFromMilestoneUnlessCurrent(state) == state # milestoneCurrent

\* Whether the object is removed from the milestone (issueChange).
removeFromMilestone(state) == state = milestoneNeedsRemoval

\* c.NewNotification
NewNotification(name, arguments, context) ==
    [Name |-> name, Arguments |-> arguments, Context |-> context]

\* The part of issueChange after issueChangeConfig: the notification, the
\* label, the comment interval and the removal the state calls for.
changeFor(config) ==
    LET icc == config.icc
        stateConfig == milestoneStateConfigs[icc.state]
        mentions == [ users |-> "issue users",
                      sigs |-> IF stateConfig.notifySIGs THEN sigMentions(icc) ELSE {} ]
        message == << mentions, messageBody(icc) >>
    IN  IF ~config.ok
        THEN [ok |-> FALSE, failed |-> config.failed]
        ELSE [ ok |-> TRUE,
               failed |-> "none",
               state |-> icc.state,
               sections |-> activeSections(icc),
               enabled |-> icc.enabledSections,
               notification |-> NewNotification(milestoneNotifierName,
                                                stateConfig.title, message),
               label |-> stateConfig.label,
               removeFromMilestone |-> removeFromMilestone(icc.state),
               commentInterval |-> IF stateConfig.warnOnInterval
                                   THEN Some(m.warningInterval) ELSE None ]

\* issueChange: the changes to make to the object; not ok (nil) when no
\* action should be taken.
issueChange(failAt) == changeFor(issueChangeConfig(failAt))

\* -------------------------------------------------------- the collaborator

\* Notification.String: the body of the comment that carries a notification.
NotificationString(notification) ==
    << ToUpper(notification.Name), notification.Arguments, notification.Context >>

\* c.ParseNotification: the notification a comment carries, nil for no comment.
ParseNotification(comment) ==
    IF comment = None THEN None
    ELSE LET body == comment[1].Body
         IN  Some([Name |-> body[1], Arguments |-> body[2], Context |-> body[3]])

\* Notification.Equal: the names compared without case, the title and body.
NotificationEqual(a, b) ==
    /\ ToUpper(a.Name) = ToUpper(b.Name)
    /\ a.Arguments = b.Arguments
    /\ a.Context = b.Context

\* The comment Notification.Post creates.
PostedComment(notification) ==
    [Author |-> m.botName, Body |-> NotificationString(notification), CreatedAt |-> now]

\* Mutant of ignoreObject: closed issues are not ignored.
ignoreObjectUnlessClosed ==
    \/ isPR
    \/ milestone = ""
    \/ milestone # m.activeMilestone

\* ignoreObject: only open issues of the active milestone are munged.
ignoreObject ==
    \/ isPR
    \/ closed
    \/ milestone = ""
    \/ milestone # m.activeMilestone

\* Mutant of latestNotificationComment: the notification name is matched
\* without upper-casing it, so no comment of the munger is recognised.
latestNotificationCommentCaseSensitive(failAt) ==
    IF failAt = "ListComments"
    THEN [ok |-> FALSE, index |-> 0, comment |-> None]
    ELSE LET mine == { i \in 1..Len(comments) :
                          /\ comments[i].Author = m.botName
                          /\ comments[i].Body[1] = milestoneNotifierName }
             lastIndex == IF mine = {} THEN 0
                          ELSE CHOOSE i \in mine : \A j \in mine : j <= i
         IN  [ ok |-> TRUE, index |-> lastIndex,
               comment |-> IF lastIndex = 0 THEN None ELSE Some(comments[lastIndex]) ]

\* latestNotificationComment: the most recent notification comment of the
\* munger; index 0 and comment nil when there is none.
latestNotificationComment(failAt) ==
    IF failAt = "ListComments"
    THEN [ok |-> FALSE, index |-> 0, comment |-> None]
    ELSE LET mine == { i \in 1..Len(comments) :
                          /\ comments[i].Author = m.botName
                          /\ comments[i].Body[1] = ToUpper(milestoneNotifierName) }
             lastIndex == IF mine = {} THEN 0
                          ELSE CHOOSE i \in mine : \A j \in mine : j <= i
         IN  [ ok |-> TRUE, index |-> lastIndex,
               comment |-> IF lastIndex = 0 THEN None ELSE Some(comments[lastIndex]) ]

\* Mutant of notificationIsCurrent: a comment as old as the interval is
\* still current.
notificationIsCurrentInclusive(notification, comment, commentInterval) ==
    LET oldNotification == ParseNotification(comment)
        notificationsEqual ==
            oldNotification # None /\ NotificationEqual(oldNotification[1], notification)
    IN  notificationsEqual
          /\ (commentInterval = None
                \/ (comment # None /\ now - comment[1].CreatedAt <= commentInterval[1]))

\* notificationIsCurrent: the notification matches the most recent
\* notification comment and the comment interval, if any, has not passed.
notificationIsCurrent(notification, comment, commentInterval) ==
    LET oldNotification == ParseNotification(comment)
        notificationsEqual ==
            oldNotification # None /\ NotificationEqual(oldNotification[1], notification)
    IN  notificationsEqual
          /\ (commentInterval = None
                \/ (comment # None /\ now - comment[1].CreatedAt < commentInterval[1]))

\* Mutant of otherStateLabels: the loop stops one element early.
otherStateLabelsButLast(labelName, labelSet) ==
    SelectSeq(SubSeq(milestoneStateLabels, 1, Len(milestoneStateLabels) - 1),
              LAMBDA stateLabel : stateLabel # labelName /\ stateLabel \in labelSet)

\* The other state labels the object carries, in the order of
\* milestoneStateLabels: the ones updateMilestoneStateLabel removes.
otherStateLabels(labelName, labelSet) ==
    SelectSeq(milestoneStateLabels,
              LAMBDA stateLabel : stateLabel # labelName /\ stateLabel \in labelSet)

\* The label events after the bot adds labelName to the object.
EventsAfterAdd(labelName) ==
    IF labelName \in GraceLabels
    THEN [botLabelEvents EXCEPT ![labelName] = Some(now)]
    ELSE botLabelEvents

\* updateMilestoneStateLabel: adds labelName when it is missing, then removes
\* every other state label; stops at the first call that fails.  failLabel is
\* the state label whose removal fails when failAt is "RemoveLabel".
updateMilestoneStateLabel(labelName, failAt, failLabel) ==
    LET adds == labelName # "" /\ ~HasLabel(labelName)
        toRemove == otherStateLabels(labelName, labels \cup {labelName})
        failing == { i \in 1..Len(toRemove) :
                        failAt = "RemoveLabel" /\ toRemove[i] = failLabel }
        stop == IF failing = {} THEN Len(toRemove) + 1
                ELSE CHOOSE i \in failing : \A j \in failing : i <= j
        removed == { toRemove[i] : i \in 1..(stop - 1) }
        addOps == IF adds THEN << [op |-> "AddLabel", arg |-> labelName] >> ELSE << >>
    IN  IF adds /\ failAt = "AddLabel"
        THEN [ ok |-> FALSE, failed |-> "AddLabel", labels |-> labels,
               events |-> botLabelEvents, ops |-> << >> ]
        ELSE [ ok |-> failing = {},
               failed |-> IF failing = {} THEN "none" ELSE "RemoveLabel",
               labels |-> (IF adds THEN labels \cup {labelName} ELSE labels) \ removed,
               events |-> IF adds THEN EventsAfterAdd(labelName) ELSE botLabelEvents,
               ops |-> addOps \o [i \in 1..(stop - 1) |->
                                     [op |-> "RemoveLabel", arg |-> toRemove[i]]] ]

\* A sequence without its i-th element.
RemoveAt(seq, i) == [j \in 1..(Len(seq) - 1) |-> IF j < i THEN seq[j] ELSE seq[j + 1]]

\* The part of Munge after the label sync: the notification comment is
\* replaced unless it is current.
updateNotification(change, failAt) ==
    LET latest == latestNotificationComment(failAt)
        current == notificationIsCurrent(change.notification, latest.comment,
                                         change.commentInterval)
        deletes == latest.comment # None
        afterDelete == IF deletes THEN RemoveAt(comments, latest.index) ELSE comments
        deleteOps == IF deletes THEN << [op |-> "DeleteComment", arg |-> ""] >> ELSE << >>
    IN  IF ~latest.ok
        THEN [ ok |-> FALSE, failed |-> "ListComments", comments |-> comments,
               ops |-> << >>, current |-> None ]
        ELSE IF current
        THEN [ ok |-> TRUE, failed |-> "none", comments |-> comments,
               ops |-> << >>, current |-> Some(TRUE) ]
        ELSE IF deletes /\ failAt = "DeleteComment"
        THEN [ ok |-> FALSE, failed |-> "DeleteComment", comments |-> comments,
               ops |-> << >>, current |-> Some(FALSE) ]
        ELSE IF failAt = "Post"
        THEN [ ok |-> FALSE, failed |-> "Post", comments |-> afterDelete,
               ops |-> deleteOps, current |-> Some(FALSE) ]
        ELSE [ ok |-> TRUE, failed |-> "none",
               comments |-> Append(afterDelete, PostedComment(change.notification)),
               ops |-> Append(deleteOps, [op |-> "Post", arg |-> ""]),
               current |-> Some(FALSE) ]

\* Mutant of continueAfterLabelSync: the result of the label sync is ignored.
continueAfterLabelSyncAlways(sync) == TRUE

\* Munge goes on to the notification only when updateMilestoneStateLabel
\* reported success.
continueAfterLabelSync(sync) == sync.ok

\* What a cycle that mutates nothing leaves behind.
NoMutation(state, failed) ==
    [ labels |-> labels, events |-> botLabelEvents, comments |-> comments,
      milestone |-> milestone,
      last |-> [ state |-> state, fail |-> failed, ops |-> << >>,
                 current |-> None, sections |-> {}, enabled |-> {} ] ]

\* The first of two failures.
FirstFailure(a, b) == IF a # "none" THEN a ELSE b

\* Munge: one cycle on the object, as the values it leaves behind.
MungeResult(failAt, failLabel) ==
    IF ignoreObject THEN NoMutation("ignored", "none")
    ELSE
      LET change == issueChange(failAt)
      IN  IF ~change.ok THEN NoMutation("indeterminate", change.failed)
          ELSE
            LET sync == updateMilestoneStateLabel(change.label, failAt, failLabel)
                note == updateNotification(change, failAt)
                clears == change.removeFromMilestone
            IN  IF ~continueAfterLabelSync(sync)
                THEN [ labels |-> sync.labels, events |-> sync.events,
                       comments |-> comments, milestone |-> milestone,
                       last |-> [ state |-> change.state, fail |-> sync.failed,
                                  ops |-> sync.ops, current |-> None,
                                  sections |-> change.sections,
                                  enabled |-> change.enabled ] ]
                ELSE IF ~note.ok
                THEN [ labels |-> sync.labels, events |-> sync.events,
                       comments |-> note.comments, milestone |-> milestone,
                       last |-> [ state |-> change.state,
                                  fail |-> FirstFailure(sync.failed, note.failed),
                                  ops |-> sync.ops \o note.ops,
                                  current |-> note.current,
                                  sections |-> change.sections,
                                  enabled |-> change.enabled ] ]
                ELSE [ labels |-> sync.labels, events |-> sync.events,
                       comments |-> note.comments,
                       milestone |-> IF clears THEN "" ELSE milestone,
                       last |-> [ state |-> change.state,
                                  fail |-> FirstFailure(sync.failed, note.failed),
                                  ops |-> sync.ops \o note.ops \o
                                          (IF clears
                                           THEN << [op |-> "ClearMilestone", arg |-> ""] >>
                                           ELSE << >>),
                                  current |-> note.current,
                                  sections |-> change.sections,
                                  enabled |-> change.enabled ] ]

\* ----------------------------------------------------------------- actions

\* The state labels an object may carry when the munger first sees it.
InitStateLabels == { ls \in SUBSET StateLabels : Cardinality(ls) <= 1 }

\* The munger is started with accepted options and meets an object that has
\* no notification comment yet.  A state label the object carries already was
\* applied by a human (no label event of the bot) or by the bot, at the time
\* that leaves one unit of the label's grace period at time 0.
Init ==
    /\ m \in Options
    /\ \E facts \in SUBSET FactLabels, stateLabels \in InitStateLabels :
          labels = facts \cup stateLabels
    /\ \E incomplete \in {None, Some(1 - m.labelGracePeriod)},
          approval \in {None, Some(1 - m.approvalGracePeriod)} :
          botLabelEvents = [l \in GraceLabels |->
                              IF l = milestoneLabelsIncompleteLabel THEN incomplete
                              ELSE approval]
    /\ \A l \in GraceLabels : l \notin labels => botLabelEvents[l] = None
    /\ milestone \in {ActiveMilestone, OtherMilestone, ""}
    /\ isPR \in BOOLEAN
    /\ closed \in BOOLEAN
    /\ (isPR /\ closed) = FALSE
    /\ (isPR \/ closed) => milestone = ActiveMilestone
    /\ comments = << >>
    /\ lastModified = 0
    /\ now = 0
    /\ last = [ state |-> "none", fail |-> "none", ops |-> << >>,
                current |-> None, sections |-> {}, enabled |-> {} ]
    /\ labelList = << >>
    /\ labelCheck = None

\* MilestoneMaintainer.Munge on the object; the call named failAt fails.
Munge ==
    \E failAt \in FailPoints :
      \E failLabel \in (IF failAt = "RemoveLabel" THEN StateLabels \cap labels
                        ELSE {""}) :
        \E r \in {MungeResult(failAt, failLabel)} :
            /\ labels' = r.labels
            /\ botLabelEvents' = r.events
            /\ comments' = r.comments
            /\ milestone' = r.milestone
            /\ last' = r.last
            /\ UNCHANGED << m, isPR, closed, lastModified, now, labelList, labelCheck >>

\* Time passes.
Tick ==
    /\ now < MaxTime
    /\ now' = now + 1
    /\ UNCHANGED << m, labels, milestone, isPR, closed, comments, botLabelEvents,
                    lastModified, last, labelList, labelCheck >>

Next ==
    \/ Munge
    \/ Tick

Spec == Init /\ [][Next]_vars

\* ------------------------------------------------------------------ claims

\* The five lifecycle states a cycle can resolve.
LifecycleStates ==
    { milestoneCurrent, milestoneNeedsLabeling, milestoneNeedsApproval,
      milestoneNeedsAttention, milestoneNeedsRemoval }

\* A step of Munge: the only other action, Tick, advances the clock.
MungeStep == now' = now

\* The names of the mutations a cycle made.
OpNames(ops) == { ops[i].op : i \in 1..Len(ops) }

\* The classification of the labels is valid: exactly one kind label,
\* exactly one priority label and at least one sig label.
ClassificationValid ==
    /\ Cardinality(labels \cap kindMap) = 1
    /\ Cardinality(labels \cap priorityMap) = 1
    /\ \E l \in labels : HasSigPrefix(l)

\* The munger's notification comments on the object.
BotNotifications ==
    { i \in 1..Len(comments) :
        comments[i].Author = BotName /\ comments[i].Body[1] = "MILESTONENOTIFIER" }

\* C1: re-evaluating an object whose facts have not changed since a cycle that
\* completed, while the notification comment is younger than the warning
\* interval and the resolved state is the same, makes no mutation.
C1_ReevaluationMutatesNothing ==
    [][ ( /\ MungeStep
          /\ last.state \in LifecycleStates
          /\ last.fail = "none"
          /\ last'.state = last.state
          /\ last'.fail = "none"
          /\ BotNotifications # {}
          /\ \A i \in BotNotifications : now - comments[i].CreatedAt < m.warningInterval )
        => last'.ops = << >> ]_vars

\* C2: after a cycle that resolved NeedsRemoval for an expired grace period,
\* completed the label sync and was aborted by a failure of the comment list,
\* the comment delete or the post, the next cycle without failures resolves
\* NeedsRemoval again and clears the milestone.
C2_AbortedRemovalIsRetried ==
    [][ ( /\ MungeStep
          /\ last.state = milestoneNeedsRemoval
          /\ last.sections \cap {"removeUnapproved", "removeIncompleteLabels"} # {}
          /\ last.fail \in {"ListComments", "DeleteComment", "Post"}
          /\ last'.fail = "none" )
        => ( last'.state = milestoneNeedsRemoval /\ milestone' = "" ) ]_vars

\* C3: a cycle in which the label events or the comment list cannot be
\* fetched makes no mutation at all.
C3_HistoryFailureMutatesNothing ==
    last.fail \in {"GetEvents", "ListComments"} => last.ops = << >>

\* C4: a cycle clears the milestone only when it resolved NeedsRemoval, as its
\* last mutation, after the label sync succeeded and with the notification in
\* place (judged current, or posted in this cycle); a cycle in which the
\* comment delete or the post failed does not clear it.
C4_ClearOnlyAfterLabelsAndNotification ==
    /\ "ClearMilestone" \in OpNames(last.ops) =>
          /\ last.state = milestoneNeedsRemoval
          /\ last.fail = "none"
          /\ last.ops[Len(last.ops)].op = "ClearMilestone"
          /\ labels \cap StateLabels = {milestoneRemovedLabel}
          /\ last.current = Some(TRUE) \/ "Post" \in OpNames(last.ops)
          /\ Cardinality(BotNotifications) = 1
          /\ comments[Len(comments)].Body[2] = "Milestone **Removed**"
    /\ last.fail \in {"DeleteComment", "Post"} =>
          "ClearMilestone" \notin OpNames(last.ops)

\* C4 witness: a cycle replaced the notification and cleared the milestone.
C4_Witness ==
    /\ "ClearMilestone" \in OpNames(last.ops)
    /\ "Post" \in OpNames(last.ops)
    /\ milestone = ""

\* C5: a cycle in which adding the state label or removing another state
\* label fails deletes no comment, posts no comment and does not clear the
\* milestone.
C5_LabelFailureStopsCycle ==
    [][ ( MungeStep /\ last'.fail \in {"AddLabel", "RemoveLabel"} )
        => /\ comments' = comments
           /\ milestone' = milestone
           /\ OpNames(last'.ops) \cap {"DeleteComment", "Post", "ClearMilestone"} = {} ]_vars

\* C5 witness: a state label was added and the removal of another one failed.
C5_Witness ==
    /\ last.fail = "RemoveLabel"
    /\ "AddLabel" \in OpNames(last.ops)
    /\ last.state \in LifecycleStates

\* C6: after a cycle whose label sync succeeded the object carries, of the
\* four state labels, exactly the label of the resolved state, and none when
\* the state is Current.
C6_ExactlyTheStateLabel ==
    ( last.state \in LifecycleStates /\ last.fail \notin {"AddLabel", "RemoveLabel"} )
    => labels \cap { "milestone/incomplete-labels", "milestone/needs-approval",
                     "milestone/needs-attention", "milestone/removed" }
         = CASE last.state = milestoneCurrent -> {}
             [] last.state = milestoneNeedsLabeling -> {"milestone/incomplete-labels"}
             [] last.state = milestoneNeedsApproval -> {"milestone/needs-approval"}
             [] last.state = milestoneNeedsAttention -> {"milestone/needs-attention"}
             [] last.state = milestoneNeedsRemoval -> {"milestone/removed"}

\* C6 witness: a label sync that removed a state label succeeded.
C6_Witness ==
    /\ last.state \in LifecycleStates
    /\ last.fail = "none"
    /\ "RemoveLabel" \in OpNames(last.ops)

C8_CurrentIff ==
    [][ ( MungeStep /\ last'.current # None )
        => LET prior == latestNotificationComment("none").comment
               new == issueChange("none").notification
               repeats == last'.state \in { milestoneNeedsLabeling,
                              milestoneNeedsApproval, milestoneNeedsAttention }
           IN  last'.current[1] <=>
                 ( /\ prior # None
                   /\ NotificationEqual(ParseNotification(prior)[1], new)
                   /\ ( ~repeats \/ now - prior[1].CreatedAt < m.warningInterval ) ) ]_vars

\* C8 witness: the comment of a warning state was judged current.
C8_Witness ==
    /\ last.current = Some(TRUE)
    /\ last.state = milestoneNeedsApproval
    /\ BotNotifications # {}

\* C9: an object with the blocker label never resolves to NeedsRemoval and
\* its milestone is never cleared.
C9_BlockerNeverRemoved ==
    blockerLabel \in labels =>
        /\ last.state # milestoneNeedsRemoval
        /\ "ClearMilestone" \notin OpNames(last.ops)
        /\ "removeIncompleteLabels" \notin last.sections

\* C9 witness: a blocker with an invalid classification whose
\* incomplete-labels label the bot applied more than the grace period ago got
\* a warning in a cycle at the present time.
C9_Witness ==
    /\ blockerLabel \in labels
    /\ ~ClassificationValid
    /\ milestoneLabelsIncompleteLabel \in labels
    /\ botLabelEvents[milestoneLabelsIncompleteLabel] # None
    /\ now - botLabelEvents[milestoneLabelsIncompleteLabel][1] > m.labelGracePeriod
    /\ last.state = milestoneNeedsLabeling
    /\ comments # << >>
    /\ comments[Len(comments)].CreatedAt = now

\* The grace period that applies to the object, the label that starts it, and
\* the remaining grace at the present time when the start is known.
GraceLabel ==
    IF ClassificationValid THEN milestoneNeedsApprovalLabel
    ELSE milestoneLabelsIncompleteLabel
GracePeriod ==
    IF ClassificationValid THEN m.approvalGracePeriod ELSE m.labelGracePeriod
GraceStart ==
    IF GraceLabel \in labels THEN botLabelEvents[GraceLabel][1] ELSE now
GraceRemaining == GraceStart + GracePeriod - now

\* The object is under a grace period: not a blocker, and its classification
\* is invalid or the approved label is missing.
UnderGrace ==
    /\ blockerLabel \notin labels
    /\ ~ClassificationValid \/ statusApprovedLabel \notin labels

\* C10 as stated: for an object under a grace period, a remaining grace of
\* zero or less resolves NeedsRemoval.
C10_ZeroRemainingRemoves ==
    [][ ( /\ MungeStep
          /\ UnderGrace
          /\ last'.state \in LifecycleStates
          /\ GraceRemaining <= 0 )
        => last'.state = milestoneNeedsRemoval ]_vars

\* C10 amended: for an object under a grace period, a negative remaining
\* grace resolves NeedsRemoval; a remaining of zero or more, zero included,
\* keeps the warning state (NeedsLabeling or NeedsApproval).
C10_NegativeRemainingRemoves ==
    [][ ( /\ MungeStep
          /\ UnderGrace
          /\ last'.state \in LifecycleStates )
        => /\ GraceRemaining < 0 => last'.state = milestoneNeedsRemoval
           /\ GraceRemaining >= 0 =>
                last'.state = IF ClassificationValid THEN milestoneNeedsApproval
                              ELSE milestoneNeedsLabeling ]_vars

\* C10 witness: a cycle at the present time warned with a remaining grace of
\* zero.
C10_Witness ==
    /\ comments # << >>
    /\ comments[Len(comments)].CreatedAt = now
    /\ last.state = milestoneNeedsLabeling
    /\ last.sections = {"warnIncompleteLabels"}
    /\ \E i \in 1..Len(comments[Len(comments)].Body[3][2]) :
          LET section == comments[Len(comments)].Body[3][2][i]
          IN  /\ section[1] = "warnIncompleteLabels"
              /\ section[2] # << >>
              /\ section[2][1] = << 0, "units" >>

\* C11 as stated: an object whose classification has errors and which lacks
\* the approved label always resolves NeedsLabeling, and no approval section
\* is enabled.
C11_InvalidAlwaysNeedsLabeling ==
    ( /\ ~ClassificationValid
      /\ statusApprovedLabel \notin labels
      /\ last.state \in LifecycleStates )
    => /\ last.state = milestoneNeedsLabeling
       /\ last.enabled \cap {"warnUnapproved", "removeUnapproved"} = {}

\* C11 amended: an object whose classification has errors and which lacks the
\* approved label resolves NeedsLabeling with only the warnIncompleteLabels
\* section or, once the label grace of a non-blocker has run out, NeedsRemoval
\* with only the removeIncompleteLabels section; never NeedsApproval, and no
\* approval section is enabled.
C11_InvalidNeverNeedsApproval ==
    ( /\ ~ClassificationValid
      /\ statusApprovedLabel \notin labels
      /\ last.state \in LifecycleStates )
    => /\ last.state \in {milestoneNeedsLabeling, milestoneNeedsRemoval}
       /\ last.state = milestoneNeedsLabeling =>
              last.enabled = {"warnIncompleteLabels"}
       /\ last.state = milestoneNeedsRemoval =>
              /\ last.enabled = {"removeIncompleteLabels"}
              /\ blockerLabel \notin labels
       /\ last.enabled \cap {"warnUnapproved", "removeUnapproved"} = {}

\* C11 witness: an object with a kind and a priority label but no sig label
\* and no approved label got the NeedsLabeling notification.
C11_Witness ==
    /\ Cardinality(labels \cap kindMap) = 1
    /\ Cardinality(labels \cap priorityMap) = 1
    /\ ~ClassificationValid
    /\ statusApprovedLabel \notin labels
    /\ last.state = milestoneNeedsLabeling
    /\ "Post" \in OpNames(last.ops)

\* The object has a valid classification and the approved label.
ValidApproved == ClassificationValid /\ statusApprovedLabel \in labels

\* A cycle has run on the object and did not ignore it.
Munged == last.state \notin {"none", "ignored"}

\* C12: in freeze mode an object with a valid classification, the approved
\* label and no blocker label resolves NeedsRemoval by the removeNonBlocker
\* section alone, whatever its in-progress label and last modification: the
\* last modification is never looked up, no progress or update section is
\* enabled, a label sync that succeeds leaves milestone/removed, and a cycle
\* without failure clears the milestone.
C12_FreezeRemovesNonBlocker ==
    ( /\ m.mode = milestoneModeFreeze
      /\ ValidApproved
      /\ blockerLabel \notin labels
      /\ Munged )
    => /\ last.state = milestoneNeedsRemoval
       /\ last.enabled = {"summarizeLabels", "removeNonBlocker"}
       /\ last.sections = {"removeNonBlocker"}
       /\ last.fail \notin {"GetEvents", "LastModification"}
       /\ last.fail \notin {"AddLabel", "RemoveLabel"} =>
              labels \cap StateLabels = {milestoneRemovedLabel}
       /\ last.fail = "none" =>
              /\ "ClearMilestone" \in OpNames(last.ops)
              /\ milestone = ""

\* C12 witness: in freeze mode a valid approved non-blocker without the
\* in-progress label, last modified longer ago than the update interval, was
\* removed from the milestone.
C12_Witness ==
    /\ m.mode = milestoneModeFreeze
    /\ ValidApproved
    /\ blockerLabel \notin labels
    /\ statusInProgressLabel \notin labels
    /\ now - lastModified > m.freezeUpdateInterval
    /\ last.state = milestoneNeedsRemoval
    /\ "ClearMilestone" \in OpNames(last.ops)
    /\ comments # << >>
    /\ comments[Len(comments)].CreatedAt = now

\* C13: in slush mode, or in freeze mode for a blocker, a cycle that resolves
\* a state for a valid approved object resolves NeedsAttention exactly when
\* the in-progress label is absent or the object is a blocker last modified
\* longer ago than the update interval of the mode, and Current otherwise.  A
\* non-blocker gets the warnNonBlockerRemoval section and no update section; a
\* blocker gets the warnUpdateInterval section whether or not an update is
\* overdue, and the warnUpdateRequired section exactly when it is.
C13_AttentionIffProgressOrUpdateMissing ==
    [][ ( /\ MungeStep
          /\ ValidApproved
          /\ \/ m.mode = milestoneModeSlush
             \/ m.mode = milestoneModeFreeze /\ blockerLabel \in labels
          /\ last'.state \in LifecycleStates )
        => LET interval == IF m.mode = milestoneModeSlush
                           THEN m.slushUpdateInterval
                           ELSE m.freezeUpdateInterval
               isBlocker == blockerLabel \in labels
               overdue == isBlocker /\ now - lastModified > interval
               missing == statusInProgressLabel \notin labels
           IN  /\ last'.state = IF missing \/ overdue THEN milestoneNeedsAttention
                                ELSE milestoneCurrent
               /\ ("warnMissingInProgress" \in last'.enabled) = missing
               /\ ("warnUpdateRequired" \in last'.enabled) = overdue
               /\ ("warnUpdateInterval" \in last'.enabled) = isBlocker
               /\ ("warnNonBlockerRemoval" \in last'.enabled) = ~isBlocker
               /\ last'.sections = last'.enabled ]_vars

\* C13 witness: in freeze mode a valid, approved, in-progress blocker last
\* modified longer ago than the freeze update interval got the NeedsAttention
\* notification with the update-required and update-interval sections.
C13_Witness ==
    /\ m.mode = milestoneModeFreeze
    /\ ValidApproved
    /\ blockerLabel \in labels
    /\ statusInProgressLabel \in labels
    /\ now - lastModified > m.freezeUpdateInterval
    /\ last.state = milestoneNeedsAttention
    /\ last.sections = {"summarizeLabels", "warnUpdateRequired", "warnUpdateInterval"}
    /\ comments # << >>
    /\ comments[Len(comments)].CreatedAt = now

\* C14: in dev mode an object with a valid classification and the approved
\* label resolves Current, whatever its blocker status, in-progress label and
\* last modification: only the label summary is enabled, no lookup of label
\* events or of the last modification is made, no state label is added, a
\* label sync that succeeds leaves no state label, and the milestone is kept.
C14_DevIsCurrent ==
    ( /\ m.mode = milestoneModeDev
      /\ ValidApproved
      /\ Munged )
    => /\ last.state = milestoneCurrent
       /\ last.enabled = {"summarizeLabels"}
       /\ last.sections = {"summarizeLabels"}
       /\ last.fail \notin {"GetEvents", "LastModification", "AddLabel"}
       /\ OpNames(last.ops) \cap {"AddLabel", "ClearMilestone"} = {}
       /\ last.fail # "RemoveLabel" => labels \cap StateLabels = {}
       /\ milestone = m.activeMilestone

\* C14 witness: in dev mode a valid approved blocker without the in-progress
\* label, last modified two intervals ago, lost its state label and got the
\* Current notification.
C14_Witness ==
    /\ m.mode = milestoneModeDev
    /\ ValidApproved
    /\ blockerLabel \in labels
    /\ statusInProgressLabel \notin labels
    /\ now - lastModified >= 2
    /\ last.state = milestoneCurrent
    /\ OpNames(last.ops) = {"RemoveLabel", "Post"}
    /\ comments[Len(comments)].CreatedAt = now

\* The remaining approval grace at the present time: the grace period counted
\* from the bot's needs-approval label event, or from now without the label.
ApprovalRemaining ==
    ( IF milestoneNeedsApprovalLabel \in labels
      THEN botLabelEvents[milestoneNeedsApprovalLabel][1]
      ELSE now ) + m.approvalGracePeriod - now

\* The sections of the body of the latest comment after the step.
PostedSections ==
    LET body == comments'[Len(comments')].Body[3][2]
    IN  { body[i] : i \in 1..Len(body) }

\* C15: a cycle that resolves a state for a non-blocker with a valid
\* classification and no approved label resolves, in any mode, NeedsApproval
\* with the removal deadline in the warning when the remaining approval grace
\* is zero or more, and NeedsRemoval when it is negative; the cycle that
\* resolves NeedsRemoval and does not fail leaves milestone/removed applied,
\* milestone/needs-approval removed and the milestone cleared.
C15_UnapprovedWarnsThenRemoves ==
    [][ ( /\ MungeStep
          /\ ClassificationValid
          /\ statusApprovedLabel \notin labels
          /\ blockerLabel \notin labels
          /\ last'.state \in LifecycleStates )
        => /\ ApprovalRemaining >= 0 =>
                /\ last'.state = milestoneNeedsApproval
                /\ last'.sections = {"summarizeLabels", "warnUnapproved"}
                /\ "Post" \in OpNames(last'.ops) =>
                      \E section \in PostedSections :
                          /\ section[1] = "warnUnapproved"
                          /\ section[3] = << durationToMaxDays(ApprovalRemaining),
                                             m.activeMilestone >>
                /\ milestone' = milestone
           /\ ApprovalRemaining < 0 =>
                /\ last'.state = milestoneNeedsRemoval
                /\ last'.sections = {"removeUnapproved"}
                /\ last'.fail = "none" =>
                      /\ labels' \cap StateLabels = {milestoneRemovedLabel}
                      /\ milestone' = "" ]_vars

\* C15 witness: a valid, unapproved non-blocker whose needs-approval label
\* the bot applied longer ago than the approval grace period lost that label,
\* got milestone/removed and was removed from the milestone.
C15_Witness ==
    /\ ClassificationValid
    /\ statusApprovedLabel \notin labels
    /\ blockerLabel \notin labels
    /\ botLabelEvents[milestoneNeedsApprovalLabel] # None
    /\ now - botLabelEvents[milestoneNeedsApprovalLabel][1] > m.approvalGracePeriod
    /\ last.state = milestoneNeedsRemoval
    /\ last.sections = {"removeUnapproved"}
    /\ \E i \in 1..Len(last.ops) :
          last.ops[i] = [op |-> "RemoveLabel", arg |-> milestoneNeedsApprovalLabel]
    /\ milestoneRemovedLabel \in labels
    /\ milestone = ""

\* ------------------------------------------------------ option validation

\* The largest duration an option is set to.
MaxDuration == 2

\* The names of the options (the keys of m.validators).
milestoneOptActiveMilestone == "active-milestone"
milestoneOptMode == "milestone-mode"
milestoneOptWarningInterval == "milestone-warning-interval"
milestoneOptLabelGracePeriod == "milestone-label-grace-period"
milestoneOptApprovalGracePeriod == "milestone-approval-grace-period"
milestoneOptSlushUpdateInterval == "milestone-slush-update-interval"
milestoneOptFreezeUpdateInterval == "milestone-freeze-update-interval"
milestoneOptFreezeDate == "milestone-freeze-date"

OptionNames ==
    { milestoneOptActiveMilestone, milestoneOptMode, milestoneOptWarningInterval,
      milestoneOptLabelGracePeriod, milestoneOptApprovalGracePeriod,
      milestoneOptSlushUpdateInterval, milestoneOptFreezeUpdateInterval,
      milestoneOptFreezeDate }

\* The values the options can be set to, valid or not.
OptionValues ==
    [ mode : milestoneModes \cup {"release"},
      warningInterval : 0..MaxDuration,
      labelGracePeriod : 0..MaxDuration,
      approvalGracePeriod : 0..MaxDuration,
      slushUpdateInterval : 0..MaxDuration,
      freezeUpdateInterval : 0..MaxDuration,
      freezeDate : {"", "Nov 22"},
      botName : {BotName},
      activeMilestone : {"", ActiveMilestone} ]

\* The field RegisterOptions binds to the option.
OptionField(config, name) ==
    CASE name = milestoneOptActiveMilestone -> << config.activeMilestone >>
      [] name = milestoneOptMode -> << config.mode >>
      [] name = milestoneOptWarningInterval -> << config.warningInterval >>
      [] name = milestoneOptLabelGracePeriod -> << config.labelGracePeriod >>
      [] name = milestoneOptApprovalGracePeriod -> << config.approvalGracePeriod >>
      [] name = milestoneOptSlushUpdateInterval -> << config.slushUpdateInterval >>
      [] name = milestoneOptFreezeUpdateInterval -> << config.freezeUpdateInterval >>
      [] name = milestoneOptFreezeDate -> << config.freezeDate >>

\* durationGreaterThanZero: no error.
durationGreaterThanZero(value) == value > 0

\* m.validators[name](name) returns no error for the fields of config.
validators(config, name) ==
    CASE name = milestoneOptActiveMilestone -> config.activeMilestone # ""
      [] name = milestoneOptMode -> config.mode \in milestoneModes
      [] name = milestoneOptWarningInterval ->
            durationGreaterThanZero(config.warningInterval)
      [] name = milestoneOptLabelGracePeriod ->
            durationGreaterThanZero(config.labelGracePeriod)
      [] name = milestoneOptApprovalGracePeriod ->
            durationGreaterThanZero(config.approvalGracePeriod)
      [] name = milestoneOptSlushUpdateInterval ->
            durationGreaterThanZero(config.slushUpdateInterval)
      [] name = milestoneOptFreezeUpdateInterval ->
            durationGreaterThanZero(config.freezeUpdateInterval)
      [] name = milestoneOptFreezeDate ->
            ~(config.mode = milestoneModeSlush /\ config.freezeDate = "")

\* Initialize returns no error: every validator accepts.
Initialize(config) == \A name \in OptionNames : validators(config, name)

\* The update callback returns no error: the validator of every changed
\* option accepts.
UpdateCallback(config, changed) == \A name \in changed : validators(config, name)

\* The munger starts with options that Initialize accepts; the object plays
\* no part.
OptionsInit ==
    /\ m \in { config \in OptionValues : Initialize(config) }
    /\ labels = {}
    /\ botLabelEvents = [l \in GraceLabels |-> None]
    /\ milestone = ""
    /\ isPR = FALSE
    /\ closed = FALSE
    /\ comments = << >>
    /\ lastModified = 0
    /\ now = 0
    /\ last = [ state |-> "none", fail |-> "none", ops |-> << >>,
                current |-> None, sections |-> {}, enabled |-> {} ]
    /\ labelList = << >>
    /\ labelCheck = None

\* Some options are set to new values at run time: the update callback is
\* called with the names of the changed options, and an update it rejects is
\* not applied.
UpdateOptions ==
    /\ \E config \in OptionValues :
          LET changed == { name \in OptionNames :
                              OptionField(config, name) # OptionField(m, name) }
          IN  /\ changed # {}
              /\ m' = IF UpdateCallback(config, changed) THEN config ELSE m
    /\ UNCHANGED << labels, milestone, isPR, closed, comments, botLabelEvents,
                    lastModified, now, last, labelList, labelCheck >>

OptionsNext == UpdateOptions

OptionsSpec == OptionsInit /\ [][OptionsNext]_vars

\* C16: after any sequence of accepted option updates, from options accepted
\* at startup, the mode is one of dev, slush and freeze, the five durations
\* are positive, the active milestone is not empty, and the freeze date is not
\* empty when the mode is slush.
C16_OptionsStayValid ==
    /\ m.mode \in {"dev", "slush", "freeze"}
    /\ m.warningInterval > 0
    /\ m.labelGracePeriod > 0
    /\ m.approvalGracePeriod > 0
    /\ m.slushUpdateInterval > 0
    /\ m.freezeUpdateInterval > 0
    /\ m.activeMilestone # ""
    /\ m.mode = "slush" => m.freezeDate # ""

\* C17: a cycle on an object that is a pull request, is closed, has no
\* milestone or has a milestone other than the active one leaves its labels,
\* label events, comments and milestone as they are, makes no mutation, and
\* calls the collaborator for no history: no call of the cycle can fail.
C17_IgnoredObjectUntouched ==
    [][ ( /\ MungeStep
          /\ \/ isPR
             \/ closed
             \/ milestone = ""
             \/ milestone # m.activeMilestone )
        => /\ labels' = labels
           /\ botLabelEvents' = botLabelEvents
           /\ comments' = comments
           /\ milestone' = milestone
           /\ last'.ops = << >>
           /\ last'.fail = "none"
           /\ last'.state = "ignored" ]_vars

\* C17 witness: a cycle ran on a closed issue of the active milestone whose
\* classification is incomplete, after its label grace period.
C17_Witness ==
    /\ closed
    /\ milestone = m.activeMilestone
    /\ ~ClassificationValid
    /\ now > m.labelGracePeriod
    /\ last.state = "ignored"

\* ---------------------------------------------------- label classification

\* The longest slice of labels checkLabels is called with.
MaxLabels == 4

\* The labels of the slices: two kinds, two priorities, two sigs and a label
\* of no category.
SliceLabels ==
    { "kind/bug", "kind/feature", "priority/important-soon", blockerLabel,
      "sig/api", "sig/node", statusApprovedLabel }

\* The slices of labels: an issue carries a label once.
LabelSlices ==
    { slice \in UNION { [1..n -> SliceLabels] : n \in 0..MaxLabels } :
        \A i, j \in 1..Len(slice) : slice[i] = slice[j] => i = j }

\* checkLabels has not been called on the slice yet.
ClassifyInit ==
    /\ labelList \in LabelSlices
    /\ labelCheck = None
    /\ m \in { config \in Options : config.mode = milestoneModeDev }
    /\ labels = {}
    /\ botLabelEvents = [l \in GraceLabels |-> None]
    /\ milestone = ""
    /\ isPR = FALSE
    /\ closed = FALSE
    /\ comments = << >>
    /\ lastModified = 0
    /\ now = 0
    /\ last = [ state |-> "none", fail |-> "none", ops |-> << >>,
                current |-> None, sections |-> {}, enabled |-> {} ]

\* checkLabels is called on the slice.
Classify ==
    /\ labelCheck' = Some(checkLabelsInSlice(labelList))
    /\ UNCHANGED << m, labels, milestone, isPR, closed, comments, botLabelEvents,
                    lastModified, now, last, labelList >>

ClassifyNext == Classify

ClassifySpec == ClassifyInit /\ [][ClassifyNext]_vars

\* The labels of the slice, without their order.
SliceSet == { labelList[i] : i \in 1..Len(labelList) }

\* C18: checkLabels returns no error exactly when the labels hold one kind
\* label, one priority label and at least one sig label; otherwise it returns
\* one error for each category that is missing or, for kind and priority,
\* duplicated, in the order kind, priority, sig owner, whatever the order of
\* the labels.  A category with exactly one label returns that label, and the
\* result on the set of the labels is the same.
C18_OneErrorPerDeficientCategory ==
    labelCheck # None =>
        LET kinds == SliceSet \cap {"kind/bug", "kind/feature", "kind/cleanup"}
            priorities == SliceSet \cap
                {"priority/critical-urgent", "priority/important-soon",
                 "priority/important-longterm"}
            sigs == SliceSet \cap {"sig/api", "sig/node"}
            expected ==
                (IF Cardinality(kinds) = 1 THEN << >> ELSE << "kind" >>) \o
                (IF Cardinality(priorities) = 1 THEN << >> ELSE << "priority" >>) \o
                (IF sigs # {} THEN << >> ELSE << "sig owner" >>)
            result == labelCheck[1]
        IN  /\ result.labelErrors = expected
            /\ result.labelErrors = << >> <=>
                  /\ Cardinality(kinds) = 1
                  /\ Cardinality(priorities) = 1
                  /\ sigs # {}
            /\ Cardinality(kinds) = 1 => kinds = {result.kindLabel}
            /\ Cardinality(priorities) = 1 => priorities = {result.priorityLabel}
            /\ { result.sigLabels[i] : i \in 1..Len(result.sigLabels) } = sigs
            /\ Len(result.sigLabels) = Cardinality(sigs)
            /\ checkLabels(SliceSet).labelErrors = result.labelErrors
            /\ checkLabels(SliceSet).kindLabel = result.kindLabel
            /\ checkLabels(SliceSet).priorityLabel = result.priorityLabel
            /\ checkLabels(SliceSet).sigLabels = sigs

\* C18 witness: checkLabels was called on a slice with two kind labels after
\* the sig and priority labels, and returned the kind error alone.
C18_Witness ==
    /\ labelList = << "sig/api", "priority/important-soon", "kind/feature", "kind/bug" >>
    /\ labelCheck # None
    /\ labelCheck[1].labelErrors = << "kind" >>

\* The sections of the body of the latest comment.
LatestSections ==
    LET body == comments[Len(comments)].Body[3][2]
    IN  { body[i] : i \in 1..Len(body) }

\* The label summary sections of the latest comment.
LatestSummaries == { section \in LatestSections : section[1] = "summarizeLabels" }

\* C19 as stated: the notification a cycle posts holds the label summary in
\* every resolved state, open when the state is Current and collapsed in the
\* other states.
C19_SummaryInEveryState ==
    ( last.state \in LifecycleStates /\ "Post" \in OpNames(last.ops) )
    => /\ LatestSummaries # {}
       /\ \A section \in LatestSummaries :
             section[2] = (last.state = milestoneCurrent)

\* C19 amended: the notification a cycle posts holds the label summary
\* exactly when the state is Current, NeedsApproval or NeedsAttention, open
\* when the state is Current and collapsed in the other two; the
\* notifications of NeedsLabeling and NeedsRemoval hold no label summary.
C19_SummaryUnlessLabelingOrRemoval ==
    ( last.state \in LifecycleStates /\ "Post" \in OpNames(last.ops) )
    => /\ LatestSummaries # {} <=>
             last.state \in { milestoneCurrent, milestoneNeedsApproval,
                              milestoneNeedsAttention }
       /\ \A section \in LatestSummaries :
             section[2] = (last.state = milestoneCurrent)
       /\ last.state = milestoneNeedsLabeling => "summarizeLabels" \notin last.enabled
       /\ last.state = milestoneNeedsRemoval /\ ClassificationValid =>
             "summarizeLabels" \in last.enabled \ last.sections

\* C19 witness: a cycle posted the NeedsAttention notification, with the
\* label summary collapsed.
C19_Witness ==
    /\ last.state = milestoneNeedsAttention
    /\ "Post" \in OpNames(last.ops)
    /\ \E section \in LatestSummaries : section[2] = FALSE

\* C20: when the resolved state is NeedsRemoval the active sections are the
\* enabled removal sections only (removeUnapproved, removeNonBlocker,
\* removeIncompleteLabels): the warn* sections and the label summary enabled
\* in the same resolution are left out.  In every other state every enabled
\* section is active.  The notification a cycle posts holds exactly the
\* active sections.
C20_OnlyRemovalSectionsOnRemoval ==
    last.state \in LifecycleStates =>
        /\ last.state = milestoneNeedsRemoval =>
              /\ last.sections =
                    last.enabled \cap {"removeUnapproved", "removeNonBlocker",
                                       "removeIncompleteLabels"}
              /\ Cardinality(last.sections) = 1
        /\ last.state # milestoneNeedsRemoval => last.sections = last.enabled
        /\ "Post" \in OpNames(last.ops) =>
              { section[1] : section \in LatestSections } = last.sections

\* C20 witness: a cycle posted the NeedsRemoval notification of an unapproved
\* object with the removeUnapproved section alone, the label summary being
\* enabled.
C20_Witness ==
    /\ last.state = milestoneNeedsRemoval
    /\ last.enabled = {"summarizeLabels", "removeUnapproved"}
    /\ "Post" \in OpNames(last.ops)
    /\ { section[1] : section \in LatestSections } = {"removeUnapproved"}


\* ------------------------------------------- objects put back in the milestone

\* A person puts an object the munger removed back into the active
\* milestone, so that the next cycle does not ignore it.
RestoreMilestone ==
    /\ milestone = ""
    /\ last.state = milestoneNeedsRemoval
    /\ milestone' = ActiveMilestone
    /\ UNCHANGED << m, labels, isPR, closed, comments, botLabelEvents,
                    lastModified, now, last, labelList, labelCheck >>

RestoreNext ==
    \/ Munge
    \/ Tick
    \/ RestoreMilestone

RestoreSpec == Init /\ [][RestoreNext]_vars

\* The states whose notification is repeated on the warning interval.
WarningStates ==
    { milestoneNeedsLabeling, milestoneNeedsApproval, milestoneNeedsAttention }

\* The cycle replaced the prior notification comment: it deleted it, then
\* posted the new notification.
Superseded ==
    LET prior == latestNotificationComment("none")
        new == issueChange("none").notification
    IN  /\ \E i \in 1..(Len(last'.ops) - 1) :
              last'.ops[i].op = "DeleteComment" /\ last'.ops[i + 1].op = "Post"
        /\ comments' = Append(RemoveAt(comments, prior.index), PostedComment(new))

\* C21: in a cycle that finds a prior notification comment equal to the new
\* notification, the comment is superseded (deleted, then the new one posted)
\* exactly when the resolved state is a warning state and the age of the
\* comment has reached the warning interval; otherwise, and so always for
\* Current and NeedsRemoval, the comment is neither deleted nor posted again.
\* A failing delete or post is the one thing that keeps a due supersession
\* from completing.
C21_SupersededIffWarningAndOld ==
    [][ ( MungeStep /\ ~RestoreMilestone /\ last'.current # None )
        => LET prior == latestNotificationComment("none").comment
               new == issueChange("none").notification
               due == /\ last'.state \in WarningStates
                      /\ now - prior[1].CreatedAt >= m.warningInterval
           IN  ( prior # None /\ NotificationEqual(ParseNotification(prior)[1], new) )
                 => /\ last'.fail = "none" => ( Superseded <=> due )
                    /\ ~due => /\ comments' = comments
                               /\ OpNames(last'.ops) \cap {"DeleteComment", "Post"} = {}
                    /\ last'.fail \in {"DeleteComment", "Post"} => due ]_vars

\* C21 witness: the notification of a blocker without the approved label,
\* whose text does not depend on the time, was replaced when its age reached
\* the warning interval.
C21_Witness ==
    /\ last.state = milestoneNeedsApproval
    /\ blockerLabel \in labels
    /\ last.fail = "none"
    /\ last.current = Some(FALSE)
    /\ \E i \in 1..(Len(last.ops) - 1) :
          last.ops[i].op = "DeleteComment" /\ last.ops[i + 1].op = "Post"
    /\ Cardinality(BotNotifications) = 1


\* C22: an object that starts with at most one notification comment of the
\* munger has at most one after any sequence of cycles, the cycles aborted by
\* a failed delete or a failed post included: a notification is posted only
\* when there is no prior one or once the prior one has been deleted.
C22_AtMostOneNotification == Cardinality(BotNotifications) <= 1

\* C22 witness: a cycle found its notification comment out of date and was
\* aborted by the failed delete; the comment is still the only one.
C22_Witness ==
    /\ last.fail = "DeleteComment"
    /\ last.current = Some(FALSE)
    /\ Cardinality(BotNotifications) = 1


\* C23: for an object under a grace period that carries the state label of
\* that grace period, a cycle in which the label events cannot be fetched, or
\* in which they hold no application of the label by the bot, is
\* indeterminate and mutates nothing: no label, comment or milestone changes,
\* and the default start is not used in place of the unknown one.
C23_UnknownGraceStartDoesNothing ==
    [][ ( /\ MungeStep
          /\ ~ignoreObject
          /\ UnderGrace
          /\ GraceLabel \in labels
          /\ botLabelEvents[GraceLabel] = None \/ last'.fail = "GetEvents" )
        => /\ last'.state = "indeterminate"
           /\ last'.ops = << >>
           /\ labels' = labels
           /\ botLabelEvents' = botLabelEvents
           /\ comments' = comments
           /\ milestone' = milestone ]_vars

\* C23 witness: a cycle was indeterminate, without any failed call, on an
\* object whose warning label was not applied by the bot.
C23_Witness ==
    /\ last.state = "indeterminate"
    /\ last.fail = "none"
    /\ ~ignoreObject
    /\ UnderGrace
    /\ GraceLabel \in labels
    /\ botLabelEvents[GraceLabel] = None


\* The object carries the warning label, and the bot last applied it more
\* than the grace period ago.
WarnedLongerAgoThan(labelName, gracePeriod) ==
    /\ labelName \in labels
    /\ botLabelEvents[labelName] # None
    /\ now - botLabelEvents[labelName][1] > gracePeriod

\* C24: a cycle resolves NeedsRemoval for incomplete labels (for a missing
\* approval) only if at its start the object carries
\* milestone/incomplete-labels (milestone/needs-approval) and the bot last
\* applied that label more than the label (approval) grace period ago; and a
\* cycle on an object under a grace period that does not carry the warning
\* label resolves the warning state, never NeedsRemoval.
C24_NoRemovalWithoutExpiredWarning ==
    [][ MungeStep
        => /\ ( /\ last'.state = milestoneNeedsRemoval
                /\ "removeIncompleteLabels" \in last'.sections )
              => WarnedLongerAgoThan(milestoneLabelsIncompleteLabel, m.labelGracePeriod)
           /\ ( /\ last'.state = milestoneNeedsRemoval
                /\ "removeUnapproved" \in last'.sections )
              => WarnedLongerAgoThan(milestoneNeedsApprovalLabel, m.approvalGracePeriod)
           /\ ( ~ignoreObject /\ UnderGrace /\ GraceLabel \notin labels )
              => last'.state = IF ClassificationValid THEN milestoneNeedsApproval
                               ELSE milestoneNeedsLabeling ]_vars

\* C24 witness: an object with incomplete labels was removed from the
\* milestone by a cycle that ran more than the label grace period after the
\* bot applied milestone/incomplete-labels.
C24_Witness ==
    /\ last.state = milestoneNeedsRemoval
    /\ last.sections = {"removeIncompleteLabels"}
    /\ last.fail = "none"
    /\ milestone = ""
    /\ botLabelEvents[milestoneLabelsIncompleteLabel] # None
    /\ now - botLabelEvents[milestoneLabelsIncompleteLabel][1] > m.labelGracePeriod


\* ------------------------------------------------------ the munger run forever

\* Ages beyond MaxAge are not told apart: MaxAge is larger than every grace
\* period and interval of Options.
MaxAge == 3

\* A time one unit further in the past, as seen from a clock that reads
\* MaxTime.
Aged(t) == IF t - 1 < MaxTime - MaxAge THEN MaxTime - MaxAge ELSE t - 1

\* An open issue of the active milestone that is under a grace period.
FairInit ==
    /\ Init
    /\ ~ignoreObject
    /\ UnderGrace

\* A cycle in which every call to a collaborator succeeds.
MungeWithoutFailure ==
    \E r \in {MungeResult("none", "")} :
        /\ labels' = r.labels
        /\ botLabelEvents' = r.events
        /\ comments' = r.comments
        /\ milestone' = r.milestone
        /\ last' = r.last
        /\ UNCHANGED << m, isPR, closed, lastModified, now, labelList, labelCheck >>

\* Time passes without end: the clock advances up to MaxTime, and from then
\* on every recorded time moves one unit into the past instead.
Elapse ==
    \/ Tick
    \/ /\ now = MaxTime
       /\ botLabelEvents' =
             [l \in GraceLabels |->
                 IF botLabelEvents[l] = None THEN None
                 ELSE Some(Aged(botLabelEvents[l][1]))]
       /\ comments' = [i \in 1..Len(comments) |->
                          [comments[i] EXCEPT !.CreatedAt = Aged(@)]]
       /\ lastModified' = Aged(lastModified)
       /\ UNCHANGED << m, labels, milestone, isPR, closed, now, last,
                       labelList, labelCheck >>

FairNext ==
    \/ MungeWithoutFailure
    \/ Elapse

\* A cycle in which every call succeeds would change the state: the state
\* predicate that ENABLED <<MungeWithoutFailure>>_vars stands for.
MungeWouldChange ==
    LET r == MungeResult("none", "")
    IN  << r.labels, r.events, r.comments, r.milestone, r.last >>
          # << labels, botLabelEvents, comments, milestone, last >>

\* Weak fairness of MungeWithoutFailure, WF_vars(MungeWithoutFailure), with
\* its enabling condition written out.
FairMunge ==
    \/ []<>(~MungeWouldChange)
    \/ []<><<MungeWithoutFailure>>_vars

\* Cycles keep being run, every call of every cycle succeeds, and time keeps
\* passing.
FairSpec ==
    /\ FairInit
    /\ [][FairNext]_vars
    /\ WF_vars(Elapse)
    /\ FairMunge

\* C25 as stated: an open non-blocker of the active milestone whose
\* classification stays invalid, or stays valid without the approved label,
\* is eventually removed from the milestone.
C25_EventuallyRemoved ==
    ( ~ignoreObject /\ UnderGrace ) ~> ( milestone = "" )

====
